---------------------------- MODULE Spec2Model ----------------------------
(***************************************************************************)
(* serde-rmpv: conversion between serde's data model and rmpv::Value.      *)
(*                                                                         *)
(* ser.rs  to_value   : typed value  -> rmpv::Value  (the Serializer)      *)
(* de.rs   from_value : rmpv::Value  -> typed value  (the Deserializer)    *)
(*                                                                         *)
(* A typed value is a record with discriminator k (serde's data model), an *)
(* rmpv::Value a record with discriminator t, a Result a record with       *)
(* discriminator st ("ok" | "err" | "panic").                              *)
(***************************************************************************)
EXTENDS Integers, Sequences, FiniteSets, TLC

VARIABLES pc, typed, output, target, input, result, ext, reads, enc

vars == <<pc, typed, output, target, input, result, ext, reads, enc>>

(***************************************************************************)
(* Bounds of the model.                                                    *)
(***************************************************************************)
\* longest byte sequence enumerated
MaxBytesLen == 2
\* longest sequence and map enumerated
MaxSeqLen == 2
\* number of reads made on one accessor
MaxReads == 4
\* number of children one driven Serializer takes in
MaxAppends == 3

(***************************************************************************)
(* Results.  Error has three kinds (error.rs); de.rs and ser.rs name the   *)
(* string-carrying format kind Error::Message, error.rs names it           *)
(* Error::Format: the model calls it "Format".  A message is a sequence of *)
(* text fragments.                                                         *)
(***************************************************************************)
Ok(v) == [st |-> "ok", val |-> v]
Err(kind, msg) == [st |-> "err", kind |-> kind, msg |-> msg]
Panic(why) == [st |-> "panic", msg |-> why]

TypeError(msg) == Err("TypeError", msg)
Message(msg) == Err("Format", msg)
UnsupportedType == Err("UnsupportedType", <<>>)

\* impl Display for Error
Display(e) ==
  CASE e.kind = "TypeError" -> <<"invalid type: ">> \o e.msg
    [] e.kind = "Format" -> e.msg
    [] e.kind = "UnsupportedType" -> <<"unsupported type">>

\* impl de::Error for Error / impl ser::Error for Error: custom
\* a de::Error::custom that built the TypeError variant instead
custom_AsTypeError(msg) == Err("TypeError", msg)

custom(msg) == Err("Format", msg)

\* serde's de::Error::invalid_type, not overridden by error.rs: its default
\* body is Error::custom(format_args!("invalid type: {}, expected {}", ..))
invalid_type(unexp, exp) == custom(<<"invalid type: ", unexp, ", expected ", exp>>)

\* an accessor that hands the child's error on as it is
RewrapMessage_KeepKind(r) == r

\* map_err(|e| Error::Message(e.to_string())); a panic unwinds through it
RewrapMessage(r) == IF r.st = "err" THEN Message(Display(r)) ELSE r

(***************************************************************************)
(* 64-bit integers.  TLC's integers are 32 bits wide, so a 64-bit quantity *)
(* is four 16-bit limbs, most significant first, holding its two's         *)
(* complement bit pattern.  rmpv::Integer is PosInt(u64) | NegInt(i64),    *)
(* NegInt only for negative numbers: [neg, l].                             *)
(***************************************************************************)
Pos(a, b, c, d) == [neg |-> FALSE, l |-> <<a, b, c, d>>]
Neg(a, b, c, d) == [neg |-> TRUE, l |-> <<a, b, c, d>>]

\* the 64-bit pattern of a number small enough for TLC
MkInt(n) ==
  IF n >= 0
  THEN Pos(0, 0, n \div 65536, n % 65536)
  ELSE Neg(65535, 65535, (n \div 65536) % 65536, n % 65536)

\* the low w bits of a pattern, zero-extended
Trunc(l, w) ==
  CASE w = 8 -> <<0, 0, 0, l[4] % 256>>
    [] w = 16 -> <<0, 0, 0, l[4]>>
    [] w = 32 -> <<0, 0, l[3], l[4]>>
    [] w = 64 -> l

\* bit w-1 of a pattern
SignBit(l, w) ==
  CASE w = 8 -> (l[4] % 256) >= 128
    [] w = 16 -> l[4] >= 32768
    [] w = 32 -> l[3] >= 32768
    [] w = 64 -> l[1] >= 32768

\* the low w bits of a pattern, one-extended
OneExtend(l, w) ==
  CASE w = 8 -> <<65535, 65535, 65535, 65280 + (l[4] % 256)>>
    [] w = 16 -> <<65535, 65535, 65535, l[4]>>
    [] w = 32 -> <<65535, 65535, l[3], l[4]>>
    [] w = 64 -> l

\* `v as i8`, `v as i16`, `v as i32` on an i64 (and the i64 itself): the
\* number the narrowed signed integer denotes
CastSigned(l, w) ==
  IF SignBit(l, w)
  THEN [neg |-> TRUE, l |-> OneExtend(l, w)]
  ELSE [neg |-> FALSE, l |-> Trunc(l, w)]

\* a narrowing that saturates at the type's maximum instead of wrapping
CastUnsigned_Saturating(l, w) ==
  IF Trunc(l, w) = l THEN [neg |-> FALSE, l |-> l]
  ELSE [neg |-> FALSE, l |-> Trunc(<<65535, 65535, 65535, 65535>>, w)]

\* `v as u8`, `v as u16`, `v as u32` on a u64 (and the u64 itself)
CastUnsigned(l, w) == [neg |-> FALSE, l |-> Trunc(l, w)]

\* rmpv::Value::as_i64 on Integer(n): PosInt above i64::MAX has no i64
Integer_as_i64(n) ==
  IF n.neg \/ n.l[1] < 32768 THEN Ok(n.l) ELSE [st |-> "none"]

\* rmpv::Value::as_u64 on Integer(n): NegInt has no u64
Integer_as_u64(n) ==
  IF n.neg THEN [st |-> "none"] ELSE Ok(n.l)

(***************************************************************************)
(* rmpv::Value                                                             *)
(***************************************************************************)
Nil == [t |-> "Nil"]
Boolean(b) == [t |-> "Boolean", b |-> b]
Integer(n) == [t |-> "Integer", n |-> n]
F32(x) == [t |-> "F32", x |-> x]
F64(x) == [t |-> "F64", x |-> x]
String(s) == [t |-> "String", str |-> s]
Binary(b) == [t |-> "Binary", bin |-> b]
Array(vs) == [t |-> "Array", arr |-> vs]
Map(es) == [t |-> "Map", map |-> es]
Ext(id, b) == [t |-> "Ext", id |-> id, bin |-> b]

MSGPACK_EXT_STRUCT_NAME == "_ExtStruct"


(***************************************************************************)
(* Typed values: what a Serialize impl hands to the Serializer, and what a *)
(* Deserialize impl builds.  An integer keeps its Rust type (s: signed,    *)
(* w: width) and the number it denotes as a sign-extended 64-bit pattern,  *)
(* which is also what i64::from / u64::from make of it.                    *)
(***************************************************************************)
TBool(b) == [k |-> "bool", b |-> b]
TInt(s, w, n) == [k |-> "int", s |-> s, w |-> w, n |-> n]
TF32(x) == [k |-> "f32", x |-> x]
TF64(x) == [k |-> "f64", x |-> x]
TChar(c) == [k |-> "char", ch |-> c]
TStr(s) == [k |-> "str", str |-> s]
TBytes(b) == [k |-> "bytes", bytes |-> b]
TNone(ty) == [k |-> "none", ty |-> ty]
TSome(v) == [k |-> "some", inner |-> v]
TUnit == [k |-> "unit"]
TUnitStruct(name) == [k |-> "unit_struct", name |-> name]
TUnitVariant(name, variant) == [k |-> "unit_variant", name |-> name, variant |-> variant]
TNewtypeStruct(name, v) == [k |-> "newtype_struct", name |-> name, inner |-> v]
TNewtypeVariant(name, variant, v) ==
  [k |-> "newtype_variant", name |-> name, variant |-> variant, inner |-> v]
TSeq(ty, vs) == [k |-> "seq", ty |-> ty, vs |-> vs]
TTuple(vs) == [k |-> "tuple", vs |-> vs]
TTupleStruct(name, vs) == [k |-> "tuple_struct", name |-> name, vs |-> vs]
TTupleVariant(name, variant, vs) ==
  [k |-> "tuple_variant", name |-> name, variant |-> variant, vs |-> vs]
TMap(kty, vty, es) == [k |-> "map", kty |-> kty, vty |-> vty, es |-> es]
TStruct(name, fs) == [k |-> "struct", name |-> name, fs |-> fs]
TStructVariant(name, variant, fs) ==
  [k |-> "struct_variant", name |-> name, variant |-> variant, fs |-> fs]

(***************************************************************************)
(* ser.rs: the Serializer.  serialize(v) is `value.serialize(&mut s)` on a *)
(* fresh Serializer { output: Nil } followed by reading s.output: Ok(the   *)
(* output slot), the first Err met, or a panic.                            *)
(***************************************************************************)
serialize_bool(v) == Ok(Boolean(v))

\* a serialize_i64 that stores the bit pattern as an unsigned PosInt
serialize_i64_AsU64(l) == Ok(Integer([neg |-> FALSE, l |-> l]))

\* rmpv: From<i64> for Integer is NegInt below zero, PosInt otherwise
serialize_i64(l) == Ok(Integer([neg |-> SignBit(l, 64), l |-> l]))

\* rmpv: From<u64> for Integer is PosInt
serialize_u64(l) == Ok(Integer([neg |-> FALSE, l |-> l]))

serialize_f32(v) == Ok(F32(v))

serialize_f64(v) == Ok(F64(v))

serialize_str(v) == Ok(String(v))

\* v.to_string() of a char is the one-character text
serialize_char(v) == serialize_str(v)

serialize_bytes(v) == Ok(Binary(v))

serialize_unit == Ok(Nil)

serialize_unit_struct(name) == serialize_unit

serialize_none == serialize_unit

serialize_unit_variant(name, variant) == serialize_str(variant)

\* the Ext branch of serialize_newtype_struct, given nv = to_value(&value)?
ExtFromValue(nv) ==
  IF nv.t = "Array" /\ Len(nv.arr) = 2
  THEN LET e0 == nv.arr[1]
           u == IF e0.t = "Integer" THEN Integer_as_u64(e0.n) ELSE [st |-> "none"]
       IN  IF u.st # "ok"
           THEN Panic("Option::unwrap on None")
           ELSE IF ~(u.val[1] = 0 /\ u.val[2] = 0 /\ u.val[3] = 0 /\ u.val[4] <= 127)
           THEN Panic("Result::unwrap on Err(TryFromIntError)")
           ELSE IF nv.arr[2].t = "Binary"
           THEN Ok(Ext(u.val[4], nv.arr[2].bin))
           ELSE Message(<<"invalid ext struct">>)
  ELSE Message(<<"invalid ext struct">>)

\* whether serialize_newtype_struct takes the Ext branch
\* a marker test that ignores the leading underscore
IsExtStructName_NoUnderscore(name) ==
  name \in {MSGPACK_EXT_STRUCT_NAME, "ExtStruct"}

IsExtStructName(name) == name = MSGPACK_EXT_STRUCT_NAME

RECURSIVE serialize(_), serialize_elements(_, _), serialize_entries(_, _),
          serialize_fields(_, _)

\* an append that drops a child whose encoding failed and goes on
RECURSIVE serialize_elements_SkipFailed(_, _)
serialize_elements_SkipFailed(vs, acc) ==
  IF vs = <<>> THEN Ok(Array(acc))
  ELSE LET r == serialize(Head(vs))
       IN  serialize_elements_SkipFailed(Tail(vs),
             IF r.st = "ok" THEN Append(acc, r.val) ELSE acc)

\* serialize_seq_element over the elements in order: the slot holds Array(acc)
serialize_elements(vs, acc) ==
  IF vs = <<>> THEN Ok(Array(acc))
  ELSE LET r == serialize(Head(vs))
       IN  IF r.st # "ok" THEN r
           ELSE serialize_elements(Tail(vs), Append(acc, r.val))

\* SerializeMap::serialize_key then serialize_value, entry by entry
serialize_entries(es, acc) ==
  IF es = <<>> THEN Ok(Map(acc))
  ELSE LET kr == serialize(Head(es)[1])
       IN  IF kr.st # "ok" THEN kr
           ELSE LET pushed == Append(acc, <<kr.val, Nil>>)
                    vr == serialize(Head(es)[2])
                IN  IF vr.st # "ok" THEN vr
                    ELSE serialize_entries(Tail(es),
                           [pushed EXCEPT ![Len(pushed)] = <<kr.val, vr.val>>])

\* a serialize_field that puts each new entry in front of the earlier ones
RECURSIVE serialize_fields_Prepend(_, _)
serialize_fields_Prepend(fs, acc) ==
  IF fs = <<>> THEN Ok(Map(acc))
  ELSE LET kr == serialize_str(Head(fs)[1])
           vr == serialize(Head(fs)[2])
       IN  IF vr.st # "ok" THEN vr
           ELSE serialize_fields_Prepend(Tail(fs), <<<<kr.val, vr.val>>>> \o acc)

\* SerializeStruct::serialize_field, field by field
serialize_fields(fs, acc) ==
  IF fs = <<>> THEN Ok(Map(acc))
  ELSE LET kr == serialize_str(Head(fs)[1])
           vr == serialize(Head(fs)[2])
       IN  IF vr.st # "ok" THEN vr
           ELSE serialize_fields(Tail(fs), Append(acc, <<kr.val, vr.val>>))

serialize_newtype_struct(name, value) ==
  IF IsExtStructName(name)
  THEN LET nv == serialize(value)
       IN  IF nv.st # "ok" THEN nv ELSE ExtFromValue(nv.val)
  ELSE serialize(value)

serialize_newtype_variant(name, variant, value) ==
  LET r == serialize(value)
  IN  IF r.st # "ok" THEN r
      ELSE Ok(Array(<<String(name), String(variant), r.val>>))

\* serialize_seq, serialize_tuple, serialize_tuple_struct and the appends
serialize_seq(vs) == serialize_elements(vs, <<>>)

\* a tuple variant started like a plain sequence, without the two names
serialize_tuple_variant_NoNames(name, variant, vs) == serialize_elements(vs, <<>>)

serialize_tuple_variant(name, variant, vs) ==
  serialize_elements(vs, <<String(name), String(variant)>>)

\* serialize_map and the SerializeMap appends
serialize_map(es) == serialize_entries(es, <<>>)

\* serialize_struct and the SerializeStruct appends
serialize_struct(fs) == serialize_fields(fs, <<>>)

\* serialize_struct_variant and SerializeStructVariant::serialize_field
serialize_struct_variant(name, variant, fs) ==
  LET m == serialize_fields(fs, <<>>)
  IN  IF m.st # "ok" THEN m
      ELSE Ok(Array(<<String(name), String(variant), m.val>>))

serialize(v) ==
  CASE v.k = "bool" -> serialize_bool(v.b)
    [] v.k = "int" -> IF v.s THEN serialize_i64(v.n.l) ELSE serialize_u64(v.n.l)
    [] v.k = "f32" -> serialize_f32(v.x)
    [] v.k = "f64" -> serialize_f64(v.x)
    [] v.k = "char" -> serialize_char(v.ch)
    [] v.k = "str" -> serialize_str(v.str)
    [] v.k = "bytes" -> serialize_bytes(v.bytes)
    [] v.k = "none" -> serialize_none
    [] v.k = "some" -> serialize(v.inner)
    [] v.k = "unit" -> serialize_unit
    [] v.k = "unit_struct" -> serialize_unit_struct(v.name)
    [] v.k = "unit_variant" -> serialize_unit_variant(v.name, v.variant)
    [] v.k = "newtype_struct" -> serialize_newtype_struct(v.name, v.inner)
    [] v.k = "newtype_variant" -> serialize_newtype_variant(v.name, v.variant, v.inner)
    [] v.k \in {"seq", "tuple", "tuple_struct"} -> serialize_seq(v.vs)
    [] v.k = "tuple_variant" -> serialize_tuple_variant(v.name, v.variant, v.vs)
    [] v.k = "map" -> serialize_map(v.es)
    [] v.k = "struct" -> serialize_struct(v.fs)
    [] v.k = "struct_variant" -> serialize_struct_variant(v.name, v.variant, v.fs)

\* pub fn to_value
to_value(value) == serialize(value)

(***************************************************************************)
(* ser.rs, one call at a time: the start operations give the output slot   *)
(* its first value, the appends take the slot and give the slot after the  *)
(* call and what the call returns.                                         *)
(***************************************************************************)
\* Ok(())
OkUnit == [st |-> "ok"]

\* serialize_seq, serialize_tuple, serialize_tuple_struct
begin_seq == Array(<<>>)

\* serialize_tuple_variant
begin_tuple_variant(name, variant) == Array(<<String(name), String(variant)>>)

\* serialize_map, serialize_struct
begin_map == Map(<<>>)

\* serialize_struct_variant
begin_struct_variant(name, variant) ==
  Array(<<String(name), String(variant), Map(<<>>)>>)

\* an append that puts the new element in front
serialize_seq_element_Front(out, value) ==
  IF out.t = "Array"
  THEN LET r == serialize(value)
       IN  IF r.st # "ok" THEN [out |-> out, res |-> r]
           ELSE [out |-> Array(<<r.val>> \o out.arr), res |-> OkUnit]
  ELSE [out |-> out, res |-> Message(<<"expected array">>)]

\* Serializer::serialize_seq_element, behind SerializeSeq, SerializeTuple,
\* SerializeTupleStruct and SerializeTupleVariant
serialize_seq_element(out, value) ==
  IF out.t = "Array"
  THEN LET r == serialize(value)
       IN  IF r.st # "ok" THEN [out |-> out, res |-> r]
           ELSE [out |-> Array(Append(out.arr, r.val)), res |-> OkUnit]
  ELSE [out |-> out, res |-> Message(<<"expected array">>)]

\* SerializeMap::serialize_key
serialize_key(out, key) ==
  IF out.t = "Map"
  THEN LET r == serialize(key)
       IN  IF r.st # "ok" THEN [out |-> out, res |-> r]
           ELSE [out |-> Map(Append(out.map, <<r.val, Nil>>)), res |-> OkUnit]
  ELSE [out |-> out, res |-> Message(<<"expected map">>)]

\* SerializeMap::serialize_value: vec[vec.len() - 1].1 = child; on an empty
\* Map the subtraction overflows or the index is out of bounds: a panic
serialize_value(out, value) ==
  IF out.t = "Map"
  THEN LET r == serialize(value)
       IN  IF r.st # "ok" THEN [out |-> out, res |-> r]
           ELSE IF out.map = <<>>
           THEN [out |-> out, res |-> Panic("index out of bounds")]
           ELSE [out |-> Map([out.map EXCEPT ![Len(out.map)] = <<@[1], r.val>>]),
                 res |-> OkUnit]
  ELSE [out |-> out, res |-> Message(<<"expected map">>)]

\* SerializeStruct::serialize_field
serialize_field(out, key, value) ==
  IF out.t = "Map"
  THEN LET kr == serialize_str(key)
           vr == serialize(value)
       IN  IF vr.st # "ok" THEN [out |-> out, res |-> vr]
           ELSE [out |-> Map(Append(out.map, <<kr.val, vr.val>>)), res |-> OkUnit]
  ELSE [out |-> out, res |-> Message(<<"expected map">>)]

\* SerializeStructVariant::serialize_field: the entry goes into the Map
\* that is the last element of the Array
serialize_variant_field(out, key, value) ==
  IF out.t = "Array"
  THEN LET r == serialize(value)
       IN  IF r.st # "ok" THEN [out |-> out, res |-> r]
           ELSE IF out.arr = <<>>
           THEN [out |-> out, res |-> Panic("index out of bounds")]
           ELSE IF out.arr[Len(out.arr)].t # "Map"
           THEN [out |-> out, res |-> Message(<<"expected map">>)]
           ELSE [out |-> Array([out.arr EXCEPT ![Len(out.arr)] =
                                  Map(Append(@.map, <<String(key), r.val>>))]),
                 res |-> OkUnit]
  ELSE [out |-> out, res |-> Message(<<"expected array">>)]

(***************************************************************************)
(* Target types: what the caller asks from_value to build.                 *)
(***************************************************************************)
TyBool == [k |-> "bool"]
TyInt(s, w) == [k |-> "int", s |-> s, w |-> w]
TyF32 == [k |-> "f32"]
TyF64 == [k |-> "f64"]
TyChar == [k |-> "char"]
TyStr == [k |-> "str"]
TyBytes == [k |-> "bytes"]
TyOption(ty) == [k |-> "option", ty |-> ty]
TyUnit == [k |-> "unit"]
TyUnitStruct(name) == [k |-> "unit_struct", name |-> name]
TyEnum(name) == [k |-> "enum", name |-> name]
TyNewtypeStruct(name, ty) == [k |-> "newtype_struct", name |-> name, ty |-> ty]
TySeq(ty) == [k |-> "seq", ty |-> ty]
TyTuple(tys) == [k |-> "tuple", tys |-> tys]
TyMap(kty, vty) == [k |-> "map", kty |-> kty, vty |-> vty]
\* a self-describing target: its Deserialize impl calls deserialize_any
TyAny == [k |-> "any"]
\* a tuple struct: deserialize_tuple_struct with the visitor of a tuple
TyTupleStruct(name, tys) == [k |-> "tuple_struct", name |-> name, tys |-> tys]
\* a hand-written byte buffer: its Deserialize calls deserialize_seq with a
\* visitor that takes visit_bytes and also visit_seq of u8 elements
TyByteSeq == [k |-> "byte_seq"]
\* a struct with named fields: fields is a sequence of [name, ty]
TyStruct(name, fields) == [k |-> "struct", name |-> name, fields |-> fields]

\* The enums of the model: E has unit variants only; TEnum is the enum of
\* ser.rs's test_serialize with a unit variant added.
EnumVariants(name) ==
  CASE name = "E" -> <<[name |-> "A", kind |-> "unit"], [name |-> "B", kind |-> "unit"]>>
    [] name = "TEnum" -> <<[name |-> "Unit", kind |-> "unit"],
                           [name |-> "Tuple", kind |-> "tuple"],
                           [name |-> "Newtype", kind |-> "newtype"],
                           [name |-> "Struct", kind |-> "struct"]>>

\* Option<T>
Some(v) == [some |-> TRUE, v |-> v]
None == [some |-> FALSE]

(***************************************************************************)
(* rmpv::Value's accessors (the crate de.rs reads its input through).      *)
(***************************************************************************)
\* str::as_bytes: the UTF-8 bytes of the texts the model uses
Utf8(s) ==
  CASE s = "" -> <<>>
    [] s = "a" -> <<97>>
    [] s = "ab" -> <<97, 98>>
    [] s = "A" -> <<65>>
    [] s = "B" -> <<66>>
    [] s = "Unit" -> <<85, 110, 105, 116>>
    [] s = "Tuple" -> <<84, 117, 112, 108, 101>>
    [] s = "Newtype" -> <<78, 101, 119, 116, 121, 112, 101>>
    [] s = "Struct" -> <<83, 116, 114, 117, 99, 116>>

as_bool(d) == IF d.t = "Boolean" THEN Some(d.b) ELSE None

as_i64(d) ==
  IF d.t = "Integer" /\ Integer_as_i64(d.n).st = "ok"
  THEN Some(Integer_as_i64(d.n).val) ELSE None

as_u64(d) ==
  IF d.t = "Integer" /\ Integer_as_u64(d.n).st = "ok"
  THEN Some(Integer_as_u64(d.n).val) ELSE None

\* as_f64 answers for F32 and F64, and casts an Integer
as_f64(d) ==
  CASE d.t = "F64" -> Some(d.x)
    [] d.t = "F32" -> Some(d.x)
    [] d.t = "Integer" -> Some([int |-> d.n])
    [] OTHER -> None

as_str(d) == IF d.t = "String" THEN Some(d.str) ELSE None

\* as_slice answers for Binary and also for String (the text's bytes)
as_slice(d) ==
  CASE d.t = "Binary" -> Some(d.bin)
    [] d.t = "String" -> Some(Utf8(d.str))
    [] OTHER -> None

(***************************************************************************)
(* serde's visitors for the target types, as far as de.rs drives them.     *)
(***************************************************************************)
\* what the visitor of target ty makes of visit_i8(n)
VisitI8(ty, n) ==
  CASE ty.k = "int" /\ ty.s -> Ok(TInt(TRUE, ty.w, MkInt(n)))
    [] ty.k = "int" /\ ~ty.s ->
         IF n >= 0 THEN Ok(TInt(FALSE, ty.w, MkInt(n)))
         ELSE custom(<<"invalid value: ", "integer", ", expected ", "unsigned">>)
    [] ty.k = "f32" -> Ok(TF32([int |-> MkInt(n)]))
    [] ty.k = "f64" -> Ok(TF64([int |-> MkInt(n)]))
    [] ty.k = "any" -> Ok(TInt(TRUE, 8, MkInt(n)))
    [] OTHER -> invalid_type("integer", ty.k)

\* what the visitor of target ty makes of visit_bytes(b)
VisitBytes(ty, b) ==
  CASE ty.k \in {"bytes", "any", "byte_seq"} -> Ok(TBytes(b))
    [] ty.k = "str" ->
         IF \E s \in {"", "a", "ab"} : Utf8(s) = b
         THEN Ok(TStr(CHOOSE s \in {"", "a", "ab"} : Utf8(s) = b))
         ELSE custom(<<"invalid value: ", "byte array", ", expected ", "a string">>)
    [] OTHER -> invalid_type("byte array", ty.k)

(***************************************************************************)
(* de.rs: the Deserializer.  deserialize(ty, d) is T::deserialize on a     *)
(* Deserializer { input: d } for the target type ty.                       *)
(***************************************************************************)
\* the Rust name of an integer type
IntName(s, w) ==
  CASE w = 8 -> IF s THEN "i8" ELSE "u8"
    [] w = 16 -> IF s THEN "i16" ELSE "u16"
    [] w = 32 -> IF s THEN "i32" ELSE "u32"
    [] w = 64 -> IF s THEN "i64" ELSE "u64"

deserialize_bool(d) ==
  IF as_bool(d).some THEN Ok(TBool(as_bool(d).v))
  ELSE TypeError(<<"expected bool">>)

\* deserialize_i8, _i16, _i32, _i64: as_i64 then `as iW`
deserialize_signed(w, d) ==
  IF as_i64(d).some THEN Ok(TInt(TRUE, w, CastSigned(as_i64(d).v, w)))
  ELSE TypeError(<<"expected ", IntName(TRUE, w)>>)

\* deserialize_u8, _u16, _u32, _u64: as_u64 then `as uW`
deserialize_unsigned(w, d) ==
  IF as_u64(d).some THEN Ok(TInt(FALSE, w, CastUnsigned(as_u64(d).v, w)))
  ELSE TypeError(<<"expected ", IntName(FALSE, w)>>)

\* an f32 request that reads through as_f64 the way deserialize_f64 does
deserialize_f32_ViaF64(d) ==
  IF as_f64(d).some THEN Ok(TF32(as_f64(d).v))
  ELSE TypeError(<<"expected f32">>)

deserialize_f32(d) == UnsupportedType

deserialize_f64(d) ==
  IF as_f64(d).some THEN Ok(TF64(as_f64(d).v))
  ELSE TypeError(<<"expected f64">>)

deserialize_char(d) == UnsupportedType

\* deserialize_str, deserialize_string, deserialize_identifier
deserialize_str(d) ==
  IF as_str(d).some THEN Ok(TStr(as_str(d).v))
  ELSE TypeError(<<"expected string: ", "{input}">>)

\* deserialize_bytes, deserialize_byte_buf
deserialize_bytes(d) ==
  IF as_slice(d).some THEN Ok(TBytes(as_slice(d).v))
  ELSE TypeError(<<"expected binary">>)

\* deserialize_unit, deserialize_unit_struct
deserialize_unit(d) ==
  IF d.t = "Nil" THEN Ok(TUnit) ELSE TypeError(<<"expected nil">>)

\* VariantAccess for UnitVariantAccess, by the kind of the selected variant
variant_access(kind) ==
  CASE kind = "unit" -> Ok(TUnit)
    [] kind = "newtype" -> invalid_type("unit variant", "newtype variant")
    [] kind = "tuple" -> invalid_type("unit variant", "tuple variant")
    [] kind = "struct" -> invalid_type("unit variant", "struct variant")

\* deserialize_enum: variant_seed reads the discriminant through
\* deserialize_identifier, the derived visitor matches it against the
\* variant names and then asks UnitVariantAccess for the variant's payload
deserialize_enum(name, d) ==
  LET id == deserialize_str(d)
      vs == EnumVariants(name)
  IN  IF id.st # "ok" THEN id
      ELSE IF ~\E i \in 1..Len(vs) : vs[i].name = id.val.str
      THEN custom(<<"unknown variant ", id.val.str>>)
      ELSE LET sel == vs[CHOOSE i \in 1..Len(vs) : vs[i].name = id.val.str]
               r == variant_access(sel.kind)
           IN  IF r.st # "ok" THEN r ELSE Ok(TUnitVariant(name, sel.name))

(***************************************************************************)
(* The accessors de.rs hands to a visitor: ArrayAccess and ValueMapAccess  *)
(* borrow the Deserializer and keep a cursor; ExtDeserializer owns the tag *)
(* and the data of an Ext and keeps a cursor.                              *)
(***************************************************************************)
ArrayAccess_new(d) == [a |-> "array", input |-> d, offset |-> 0]

ValueMapAccess_new(d) == [a |-> "map", input |-> d, offset |-> 0]

\* ExtDeserializer::new: rmpv::Value::from(id) and rmpv::Value::from(data)
ExtDeserializer_new(d) ==
  [a |-> "ext", id |-> Integer(MkInt(d.id)), data |-> Binary(d.bin), offset |-> 0]

\* the i8 a sign-extended pattern of an 8-bit number denotes
I8Value(n) == IF n.neg THEN n.l[4] - 65536 ELSE n.l[4]

\* an ExtIdDeserializer that hands over the tag's low byte without `as i8`
ExtIdDeserializer_LowByte(ty, id) ==
  IF as_i64(id).some
  THEN VisitI8(ty, Trunc(as_i64(id).v, 8)[4])
  ELSE Panic("Option::unwrap on None")

\* ExtIdDeserializer::deserialize_any, for every request:
\* visitor.visit_i8(self.id.as_i64().unwrap() as i8)
ExtIdDeserializer(ty, id) ==
  IF as_i64(id).some
  THEN VisitI8(ty, I8Value(CastSigned(as_i64(id).v, 8)))
  ELSE Panic("Option::unwrap on None")

\* ExtValueDeserializer::deserialize_any, for every request:
\* visitor.visit_bytes(self.value.as_slice().unwrap())
ExtValueDeserializer(ty, data) ==
  IF as_slice(data).some
  THEN VisitBytes(ty, as_slice(data).v)
  ELSE Panic("Option::unwrap on None")

\* Ok(v) becomes Ok(Some(v))
OkSome(r) == IF r.st = "ok" THEN Ok(Some(r.val)) ELSE r

RECURSIVE deserialize(_, _), next_element_seed(_, _), next_key_seed(_, _),
          next_value_seed(_, _), VecVisitSeq(_, _, _), TupleVisitSeq(_, _, _),
          MapVisitMap(_, _, _, _), deserialize_seq(_, _), deserialize_map(_, _),
          deserialize_any(_), StructVisitMap(_, _, _)

\* a next_element_seed of ArrayAccess that moves the cursor only after the
\* element has decoded
next_element_seed_AdvanceOnSuccess(acc, ty) ==
  IF acc.a = "array"
  THEN IF acc.input.t # "Array"
       THEN [acc |-> acc, res |-> TypeError(<<"expected array">>)]
       ELSE IF acc.offset < Len(acc.input.arr)
       THEN LET r == RewrapMessage(deserialize(ty, acc.input.arr[acc.offset + 1]))
            IN  [acc |-> IF r.st = "ok" THEN [acc EXCEPT !.offset = @ + 1] ELSE acc,
                 res |-> OkSome(r)]
       ELSE [acc |-> acc, res |-> Ok(None)]
  ELSE CASE acc.offset = 0 ->
              [acc |-> [acc EXCEPT !.offset = @ + 1],
               res |-> OkSome(ExtIdDeserializer(ty, acc.id))]
         [] acc.offset = 1 ->
              [acc |-> [acc EXCEPT !.offset = @ + 1],
               res |-> OkSome(ExtValueDeserializer(ty, acc.data))]
         [] OTHER -> [acc |-> acc, res |-> Ok(None)]

\* SeqAccess::next_element_seed of ArrayAccess and of ExtDeserializer: the
\* accessor after the call and what the call returns
next_element_seed(acc, ty) ==
  IF acc.a = "array"
  THEN IF acc.input.t # "Array"
       THEN [acc |-> acc, res |-> TypeError(<<"expected array">>)]
       ELSE IF acc.offset < Len(acc.input.arr)
       THEN [acc |-> [acc EXCEPT !.offset = @ + 1],
             res |-> OkSome(RewrapMessage(deserialize(ty, acc.input.arr[acc.offset + 1])))]
       ELSE [acc |-> acc, res |-> Ok(None)]
  ELSE CASE acc.offset = 0 ->
              [acc |-> [acc EXCEPT !.offset = @ + 1],
               res |-> OkSome(ExtIdDeserializer(ty, acc.id))]
         [] acc.offset = 1 ->
              [acc |-> [acc EXCEPT !.offset = @ + 1],
               res |-> OkSome(ExtValueDeserializer(ty, acc.data))]
         [] OTHER -> [acc |-> acc, res |-> Ok(None)]

\* MapAccess::next_key_seed of ValueMapAccess
next_key_seed(acc, ty) ==
  IF acc.input.t # "Map"
  THEN [acc |-> acc, res |-> TypeError(<<"expected map">>)]
  ELSE IF acc.offset < Len(acc.input.map)
  THEN [acc |-> [acc EXCEPT !.offset = @ + 1],
        res |-> OkSome(RewrapMessage(deserialize(ty, acc.input.map[acc.offset + 1][1])))]
  ELSE [acc |-> acc, res |-> Ok(None)]

\* a next_value_seed that indexes with the cursor itself: m[self.offset].1
next_value_seed_NoMinusOne(acc, ty) ==
  IF acc.input.t # "Map"
  THEN [acc |-> acc, res |-> TypeError(<<"expected map">>)]
  ELSE IF acc.offset >= Len(acc.input.map)
  THEN [acc |-> acc, res |-> Panic("index out of bounds")]
  ELSE [acc |-> acc,
        res |-> RewrapMessage(deserialize(ty, acc.input.map[acc.offset + 1][2]))]

\* MapAccess::next_value_seed of ValueMapAccess: m[self.offset - 1].1.  With
\* the cursor at 0 the subtraction overflows: a panic in a build with
\* overflow checks, and otherwise an index of usize::MAX, which panics too
next_value_seed(acc, ty) ==
  IF acc.input.t # "Map"
  THEN [acc |-> acc, res |-> TypeError(<<"expected map">>)]
  ELSE IF acc.offset = 0 \/ acc.offset > Len(acc.input.map)
  THEN [acc |-> acc, res |-> Panic("index out of bounds")]
  ELSE [acc |-> acc,
        res |-> RewrapMessage(deserialize(ty, acc.input.map[acc.offset][2]))]

\* visit_seq of Vec<T>'s visitor: next_element until None
VecVisitSeq(ty, acc, out) ==
  LET n == next_element_seed(acc, ty)
  IN  IF n.res.st # "ok" THEN n.res
      ELSE IF ~n.res.val.some THEN Ok(TSeq(ty, out))
      ELSE VecVisitSeq(ty, n.acc, Append(out, n.res.val.v))

\* visit_seq of a tuple's visitor: one next_element per field, a missing
\* element is Error::invalid_length, trailing elements are not looked at
TupleVisitSeq(tys, acc, out) ==
  IF Len(out) = Len(tys) THEN Ok(TTuple(out))
  ELSE LET n == next_element_seed(acc, tys[Len(out) + 1])
       IN  IF n.res.st # "ok" THEN n.res
           ELSE IF ~n.res.val.some
           THEN custom(<<"invalid length ", "expected a tuple">>)
           ELSE TupleVisitSeq(tys, n.acc, Append(out, n.res.val.v))

\* visit_map of a map's visitor: next_key then next_value until no key
MapVisitMap(kty, vty, acc, out) ==
  LET kr == next_key_seed(acc, kty)
  IN  IF kr.res.st # "ok" THEN kr.res
      ELSE IF ~kr.res.val.some THEN Ok(TMap(kty, vty, out))
      ELSE LET vr == next_value_seed(kr.acc, vty)
           IN  IF vr.res.st # "ok" THEN vr.res
               ELSE MapVisitMap(kty, vty, vr.acc,
                                Append(out, <<kr.res.val.v, vr.res.val>>))

\* the end of a derived struct visitor's visit_map: every field must have
\* been seen; serde's missing_field gives None for an Option field and
\* Error::missing_field (through custom) for any other
StructBuild(ty, got) ==
  LET n == Len(ty.fields)
      missing == {i \in 1..n : ~got[i].some /\ ty.fields[i].ty.k # "option"}
  IN  IF missing # {}
      THEN custom(<<"missing field ",
                    ty.fields[CHOOSE i \in missing : \A j \in missing : i <= j].name>>)
      ELSE Ok(TStruct(ty.name,
                [i \in 1..n |->
                   <<ty.fields[i].name,
                     IF got[i].some THEN got[i].v ELSE TNone(ty.fields[i].ty.ty)>>]))

\* visit_map of a derived struct visitor: the key is read as a field
\* identifier (deserialize_identifier), a known field's value with the
\* field's type, an unknown field's value as IgnoredAny; a field met twice
\* is Error::duplicate_field
StructVisitMap(ty, acc, got) ==
  LET kr == next_key_seed(acc, TyStr)
  IN  IF kr.res.st # "ok" THEN kr.res
      ELSE IF ~kr.res.val.some THEN StructBuild(ty, got)
      ELSE LET key == kr.res.val.v.str
               idx == {i \in 1..Len(ty.fields) : ty.fields[i].name = key}
           IN  IF idx = {}
               THEN LET ir == next_value_seed(kr.acc, TyAny)
                    IN  IF ir.res.st # "ok" THEN ir.res
                        ELSE StructVisitMap(ty, ir.acc, got)
               ELSE LET i == CHOOSE i \in idx : TRUE
                    IN  IF got[i].some THEN custom(<<"duplicate field ", key>>)
                        ELSE LET vr == next_value_seed(kr.acc, ty.fields[i].ty)
                             IN  IF vr.res.st # "ok" THEN vr.res
                                 ELSE StructVisitMap(ty, vr.acc,
                                        [got EXCEPT ![i] = Some(vr.res.val)])

\* the visitor's visit_seq on a SeqAccess
VisitSeq(ty, acc) ==
  CASE ty.k = "seq" -> VecVisitSeq(ty.ty, acc, <<>>)
    [] ty.k = "tuple" -> TupleVisitSeq(ty.tys, acc, <<>>)
    [] ty.k = "any" -> VecVisitSeq(TyAny, acc, <<>>)
    [] ty.k = "tuple_struct" ->
         LET r == TupleVisitSeq(ty.tys, acc, <<>>)
         IN  IF r.st = "ok" THEN Ok(TTupleStruct(ty.name, r.val.vs)) ELSE r
    [] ty.k = "byte_seq" ->
         LET r == VecVisitSeq(TyInt(FALSE, 8), acc, <<>>)
         IN  IF r.st = "ok"
             THEN Ok(TBytes([i \in 1..Len(r.val.vs) |-> r.val.vs[i].n.l[4]]))
             ELSE r
    [] OTHER -> invalid_type("sequence", ty.k)

\* a deserialize_seq that takes a Binary apart into one element per byte
deserialize_seq_BytesAsElements(ty, d) ==
  CASE d.t = "Binary" ->
         VisitSeq(ty, ArrayAccess_new(Array([i \in 1..Len(d.bin) |-> Integer(MkInt(d.bin[i]))])))
    [] d.t = "Ext" -> VisitSeq(ty, ExtDeserializer_new(d))
    [] d.t = "Array" -> VisitSeq(ty, ArrayAccess_new(d))
    [] OTHER -> TypeError(<<"expected sequence type">>)

\* deserialize_seq, deserialize_tuple, deserialize_tuple_struct
deserialize_seq(ty, d) ==
  CASE d.t = "Binary" -> VisitBytes(ty, d.bin)
    [] d.t = "Ext" -> VisitSeq(ty, ExtDeserializer_new(d))
    [] d.t = "Array" -> VisitSeq(ty, ArrayAccess_new(d))
    [] OTHER -> TypeError(<<"expected sequence type">>)

\* deserialize_map, deserialize_struct
deserialize_map(ty, d) ==
  IF d.t = "Map"
  THEN CASE ty.k = "map" -> MapVisitMap(ty.kty, ty.vty, ValueMapAccess_new(d), <<>>)
         [] ty.k = "struct" ->
              StructVisitMap(ty, ValueMapAccess_new(d), [i \in 1..Len(ty.fields) |-> None])
         [] OTHER -> MapVisitMap(TyAny, TyAny, ValueMapAccess_new(d), <<>>)
  ELSE TypeError(<<"expected map">>)

\* a deserialize_option that takes every value, Nil too, as present
deserialize_option_AlwaysSome(ty, d) ==
  LET r == deserialize(ty, d)
  IN  IF r.st # "ok" THEN r ELSE Ok(TSome(r.val))

\* deserialize_option: visit_none on Nil, else visit_some(self)
deserialize_option(ty, d) ==
  IF d.t = "Nil" THEN Ok(TNone(ty))
  ELSE LET r == deserialize(ty, d)
       IN  IF r.st # "ok" THEN r ELSE Ok(TSome(r.val))

\* deserialize_newtype_struct: visitor.visit_newtype_struct(self)
deserialize_newtype_struct(name, ty, d) ==
  LET r == deserialize(ty, d)
  IN  IF r.st # "ok" THEN r ELSE Ok(TNewtypeStruct(name, r.val))

\* deserialize_any, deserialize_ignored_any
deserialize_any(d) ==
  CASE d.t = "Nil" -> deserialize_unit(d)
    [] d.t = "Boolean" -> deserialize_bool(d)
    [] d.t = "Integer" -> deserialize_signed(64, d)
    [] d.t = "String" -> deserialize_str(d)
    [] d.t = "Array" -> deserialize_seq(TyAny, d)
    [] d.t = "Map" -> deserialize_map(TyAny, d)
    [] d.t = "Binary" -> deserialize_bytes(d)
    [] OTHER -> UnsupportedType

\* T::deserialize(&mut Deserializer { input: d }): the Deserializer method
\* the target type's Deserialize impl calls
deserialize(ty, d) ==
  CASE ty.k = "bool" -> deserialize_bool(d)
    [] ty.k = "int" -> IF ty.s THEN deserialize_signed(ty.w, d)
                       ELSE deserialize_unsigned(ty.w, d)
    [] ty.k = "f32" -> deserialize_f32(d)
    [] ty.k = "f64" -> deserialize_f64(d)
    [] ty.k = "char" -> deserialize_char(d)
    [] ty.k = "str" -> deserialize_str(d)
    [] ty.k = "bytes" -> deserialize_bytes(d)
    [] ty.k = "option" -> deserialize_option(ty.ty, d)
    [] ty.k = "unit" -> deserialize_unit(d)
    [] ty.k = "unit_struct" ->
         IF deserialize_unit(d).st = "ok" THEN Ok(TUnitStruct(ty.name))
         ELSE deserialize_unit(d)
    [] ty.k = "enum" -> deserialize_enum(ty.name, d)
    [] ty.k = "newtype_struct" -> deserialize_newtype_struct(ty.name, ty.ty, d)
    [] ty.k \in {"seq", "tuple", "tuple_struct", "byte_seq"} -> deserialize_seq(ty, d)
    [] ty.k \in {"map", "struct"} -> deserialize_map(ty, d)
    [] ty.k = "any" -> deserialize_any(d)

\* pub fn from_value
from_value(ty, s) == deserialize(ty, s)

(***************************************************************************)
(* The inputs of the model.                                                *)
(***************************************************************************)
SeqsOf(S, n) == UNION {[1..m -> S] : m \in 0..n}

ByteSeqs == SeqsOf({1, 200}, MaxBytesLen)

\* numbers around the edges of the integer types
IntVals ==
  {MkInt(n) : n \in {0, 1, 42, 127, 128, 200, 255, 256, 300, 32767, 32768,
                     65535, 65536, -1, -128, -129, -32768, -32769}}
  \cup {Pos(0, 0, 32768, 0), Pos(0, 0, 65535, 65535), Pos(0, 1, 0, 0),
        Pos(32767, 65535, 65535, 65535), Pos(32768, 0, 0, 0),
        Pos(65535, 65535, 65535, 65535),
        Neg(65535, 65535, 32768, 0), Neg(65535, 65535, 32767, 65535),
        Neg(32768, 0, 0, 0)}

Widths == {8, 16, 32, 64}

\* whether the number n is a value of the integer type (s, w)
InType(n, s, w) ==
  IF s
  THEN IF n.neg THEN SignBit(n.l, w) /\ n.l = OneExtend(n.l, w)
       ELSE ~SignBit(n.l, w) /\ n.l = Trunc(n.l, w)
  ELSE ~n.neg /\ n.l = Trunc(n.l, w)

TypedInts ==
  {TInt(s, w, n) : <<s, w, n>> \in
     {x \in BOOLEAN \X Widths \X IntVals : InType(x[3], x[1], x[2])}}

Floats == {[num |-> "1.5"], [num |-> "-0.0"]}

Texts == {"", "a", "ab"}

\* _ExtStruct((tag, bytes)) with an i8 tag
ExtTags == {-128, -1, 0, 42, 127}

ExtPair(t, b) == TTuple(<<TInt(TRUE, 8, MkInt(t)), TBytes(b)>>)

ExtStruct(t, b) == TNewtypeStruct(MSGPACK_EXT_STRUCT_NAME, ExtPair(t, b))

ExtStructs == {ExtStruct(t, b) : <<t, b>> \in ExtTags \X ByteSeqs}

Scalars ==
  {TBool(b) : b \in BOOLEAN} \cup TypedInts
    \cup {TF32(x) : x \in Floats} \cup {TF64(x) : x \in Floats}
    \cup {TStr(x) : x \in Texts} \cup {TBytes(b) : b \in ByteSeqs}
    \cup {TUnitVariant("E", "A"), TUnitVariant("E", "B"),
          TUnitVariant("TEnum", "Unit")}

\* a few values of each kind to put into containers
Elements ==
  {TBool(TRUE), TInt(TRUE, 8, MkInt(-1)), TInt(FALSE, 64, Pos(32768, 0, 0, 0)),
   TF32([num |-> "1.5"]), TF64([num |-> "1.5"]), TStr("a"), TBytes(<<1, 200>>),
   TUnitVariant("E", "B"), ExtStruct(42, <<1>>), ExtStruct(-1, <<1>>)}

\* the target type that rebuilds a typed value
RECURSIVE TypeOf(_)
TypeOf(v) ==
  CASE v.k \in {"bool", "f32", "f64", "char", "str", "bytes", "unit"} -> [k |-> v.k]
    [] v.k = "int" -> TyInt(v.s, v.w)
    [] v.k = "none" -> TyOption(v.ty)
    [] v.k = "some" -> TyOption(TypeOf(v.inner))
    [] v.k = "unit_struct" -> TyUnitStruct(v.name)
    [] v.k \in {"unit_variant", "newtype_variant", "tuple_variant", "struct_variant"} ->
         TyEnum(v.name)
    [] v.k = "newtype_struct" -> TyNewtypeStruct(v.name, TypeOf(v.inner))
    [] v.k = "seq" -> TySeq(v.ty)
    [] v.k = "tuple" -> TyTuple([i \in 1..Len(v.vs) |-> TypeOf(v.vs[i])])
    [] v.k = "map" -> TyMap(v.kty, v.vty)
    [] v.k = "struct" ->
         TyStruct(v.name, [i \in 1..Len(v.fs) |->
                             [name |-> v.fs[i][1], ty |-> TypeOf(v.fs[i][2])]])

Options ==
  {TNone(TypeOf(e)) : e \in Elements} \cup {TSome(e) : e \in Elements}
    \cup {TSome(TNone(TyBool)), TSome(TSome(TBool(TRUE))), TNone(TyOption(TyBool)),
          TSome(TUnit), TSome(TUnitStruct("Marker"))}

\* sequences and maps of one element type
SeqValues ==
  UNION {{TSeq(TypeOf(e), vs) : vs \in SeqsOf({e, x}, MaxSeqLen)} :
           <<e, x>> \in {<<TBool(TRUE), TBool(FALSE)>>,
                         <<TInt(TRUE, 8, MkInt(-1)), TInt(TRUE, 8, MkInt(42))>>,
                         <<TF32([num |-> "1.5"]), TF32([num |-> "-0.0"])>>,
                         <<ExtStruct(42, <<1>>), ExtStruct(-1, <<>>)>>,
                         <<TSome(TStr("a")), TNone(TyStr)>>}}

MapValues ==
  UNION {{TMap(TyStr, TypeOf(e), es) :
            es \in SeqsOf({<<TStr("a"), e>>, <<TStr("ab"), x>>}, MaxSeqLen)} :
           <<e, x>> \in {<<TInt(FALSE, 8, MkInt(200)), TInt(FALSE, 8, MkInt(1))>>,
                         <<TBytes(<<1>>), TBytes(<<>>)>>,
                         <<ExtStruct(0, <<200>>), ExtStruct(127, <<1>>)>>,
                         <<TUnitVariant("E", "A"), TUnitVariant("E", "B")>>}}

\* the values the round trip is about: built from bool, integers, f32, f64,
\* text, bytes, optionals, sequences, maps, unit variants and _ExtStruct
RoundTripValues == Scalars \cup ExtStructs \cup Options \cup SeqValues \cup MapValues

\* structs with named fields: TestStruct of de.rs's test_deserialize, S with
\* a first field of each kind, and structs of no and of optional fields
StructValues ==
  {TStruct("TestStruct", <<<<"a", TInt(TRUE, 32, MkInt(42))>>, <<"b", TStr("ab")>>>>),
   TStruct("Empty", <<>>),
   TStruct("O", <<<<"a", TNone(TyBool)>>, <<"b", TSome(TBool(TRUE))>>>>),
   TStruct("O", <<<<"a", TSome(TNone(TyBool))>>>>)}
    \cup {TStruct("S", <<<<"a", e>>, <<"b", TStr("a")>>>>) : e \in Elements}
    \cup {TStruct("R", <<<<"b", TStr("a")>>, <<"a", e>>>>) : e \in Elements}

\* what a wrapper may hold besides a well-formed (i8, bytes) pair
ExtPayloads ==
  {ExtPair(42, <<1>>), ExtPair(-1, <<1>>),
   TTuple(<<TInt(FALSE, 8, MkInt(200)), TBytes(<<1>>)>>),
   TTuple(<<TInt(FALSE, 8, MkInt(7)), TBytes(<<1>>)>>),
   TTuple(<<TInt(TRUE, 16, MkInt(300)), TBytes(<<1>>)>>),
   TTuple(<<TInt(FALSE, 64, Pos(32768, 0, 0, 0)), TBytes(<<>>)>>),
   TTuple(<<TStr("a"), TBytes(<<1>>)>>),
   TTuple(<<TBool(TRUE), TBytes(<<1>>)>>),
   TTuple(<<TUnit, TBytes(<<1>>)>>),
   TTuple(<<TInt(TRUE, 8, MkInt(42)), TStr("a")>>),
   TTuple(<<TInt(TRUE, 8, MkInt(42)), TInt(TRUE, 8, MkInt(1))>>),
   TTuple(<<TInt(TRUE, 8, MkInt(42)), TSeq(TyInt(FALSE, 8), <<TInt(FALSE, 8, MkInt(1))>>)>>),
   TTuple(<<TInt(TRUE, 8, MkInt(-1)), TStr("a")>>),
   TTuple(<<TInt(TRUE, 8, MkInt(42))>>),
   TTuple(<<>>),
   TTuple(<<TInt(TRUE, 8, MkInt(42)), TBytes(<<1>>), TBytes(<<1>>)>>),
   TInt(TRUE, 8, MkInt(42)), TBytes(<<1>>), TStr("a"), TUnit, TNone(TyBool),
   TMap(TyStr, TyBytes, <<<<TStr("a"), TBytes(<<1>>)>>>>),
   ExtStruct(42, <<1>>),
   TTuple(<<ExtStruct(42, <<1>>), TBytes(<<1>>)>>),
   TTuple(<<TInt(TRUE, 8, MkInt(42)), ExtStruct(42, <<1>>)>>),
   TNewtypeStruct("_ExtStruct", TStr("a"))}

WrapperNames == {MSGPACK_EXT_STRUCT_NAME, "ExtStruct", "_extstruct", "Wrap"}

\* fields of the tuple variant TEnum::Tuple: two u8, a wrapper that encodes
\* to an Ext and a wrapper whose encoding fails
TupleFields ==
  {TInt(FALSE, 8, MkInt(1)), TInt(FALSE, 8, MkInt(2)), ExtStruct(42, <<1>>),
   TNewtypeStruct(MSGPACK_EXT_STRUCT_NAME, TStr("a"))}

\* containers with children whose encoding fails: as an error (a wrapper of
\* a text), as a panic (a wrapper with a negative tag), at depth 1 and 2
FailingValues ==
  LET bad == TNewtypeStruct(MSGPACK_EXT_STRUCT_NAME, TStr("a"))
      neg == ExtStruct(-1, <<1>>)
  IN  {TTuple(<<TBool(TRUE), bad, neg>>), TTuple(<<TBool(TRUE), neg, bad>>),
       TTuple(<<TBool(TRUE), TTuple(<<bad>>), neg>>),
       TMap(TyStr, TyStr, <<<<TStr("a"), bad>>, <<neg, TStr("a")>>>>),
       TMap(TyStr, TyStr, <<<<neg, bad>>>>),
       TStruct("S", <<<<"a", TBool(TRUE)>>, <<"b", bad>>, <<"c", neg>>>>),
       TStructVariant("TEnum", "Struct", <<<<"a", neg>>, <<"b", bad>>>>),
       TNewtypeVariant("TEnum", "Newtype", bad), TSome(bad),
       TNewtypeStruct("Wrap", TTuple(<<bad>>))}

\* the other shapes of serde's data model
OtherValues ==
  {TChar("a"), TUnit, TUnitStruct("Marker")}
    \cup {TNewtypeStruct(n, p) : <<n, p>> \in WrapperNames \X ExtPayloads}
    \cup {ExtPair(t, b) : <<t, b>> \in ExtTags \X ByteSeqs}
    \cup {TTupleStruct("Pair", ExtPair(t, <<1>>).vs) : t \in ExtTags}
    \cup {TNewtypeVariant("TEnum", "Newtype", e) : e \in Elements}
    \cup {TTupleVariant("TEnum", "Tuple", vs) : vs \in SeqsOf(TupleFields, MaxSeqLen)}
    \cup StructValues
    \cup {TStructVariant("TEnum", "Struct", <<<<"a", e>>>>) : e \in Elements}
    \cup {TTuple(<<TBool(TRUE), ExtStruct(-1, <<1>>), TBool(FALSE)>>)}
    \cup FailingValues

TypedValues == RoundTripValues \cup OtherValues

\* rmpv values handed to from_value directly
DynValues ==
  {Nil, Boolean(TRUE), Boolean(FALSE)}
    \cup {Integer(n) : n \in IntVals}
    \cup {F32(x) : x \in Floats} \cup {F64(x) : x \in Floats}
    \cup {String(x) : x \in Texts \cup {"A", "Unit", "Newtype", "Tuple", "Struct"}}
    \cup {Binary(b) : b \in ByteSeqs}
    \cup {Ext(t, b) : <<t, b>> \in ExtTags \X ByteSeqs}
    \cup {Array(<<>>), Array(<<Integer(MkInt(1)), Integer(MkInt(300))>>),
          Array(<<Integer(MkInt(42)), Binary(<<1>>)>>),
          Array(<<String("a"), Nil>>),
          Array(<<String("TEnum"), String("Newtype"), Integer(MkInt(2))>>),
          Array(<<F32([num |-> "1.5"])>>),
          Map(<<>>), Map(<<<<String("a"), Integer(MkInt(1))>>>>),
          Map(<<<<String("a"), Integer(MkInt(1))>>, <<String("a"), Boolean(TRUE)>>>>),
          Map(<<<<String("Newtype"), Integer(MkInt(2))>>>>),
          Map(<<<<Integer(MkInt(1)), Nil>>, <<String("a"), Boolean(TRUE)>>>>),
          Array(<<Array(<<String("a")>>), Nil>>)}

\* target types asked of from_value directly
Targets ==
  {TyBool, TyF32, TyF64, TyChar, TyStr, TyBytes, TyUnit, TyAny,
   TyUnitStruct("Marker"), TyEnum("E"), TyEnum("TEnum"),
   TyOption(TyBool), TyOption(TyF32), TyOption(TyOption(TyBool)),
   TySeq(TyInt(FALSE, 8)), TySeq(TyAny), TySeq(TyChar),
   TyTuple(<<TyInt(TRUE, 8), TyBytes>>), TyTuple(<<TyInt(FALSE, 8), TyBytes>>),
   TyNewtypeStruct(MSGPACK_EXT_STRUCT_NAME, TyTuple(<<TyInt(TRUE, 8), TyBytes>>)),
   TyNewtypeStruct(MSGPACK_EXT_STRUCT_NAME, TyTuple(<<TyInt(FALSE, 8), TyBytes>>)),
   TyMap(TyStr, TyInt(TRUE, 64)), TyMap(TyStr, TyEnum("TEnum")),
   TyStruct("TestStruct", <<[name |-> "a", ty |-> TyInt(TRUE, 32)],
                            [name |-> "b", ty |-> TyStr]>>),
   TyStruct("O", <<[name |-> "a", ty |-> TyOption(TyBool)]>>),
   TyByteSeq, TyTupleStruct("Pair", <<TyInt(TRUE, 8), TyBytes>>),
   TyTuple(<<TyInt(FALSE, 16), TyInt(FALSE, 16)>>),
   TyTuple(<<TyBool, TyStr>>), TySeq(TySeq(TyInt(FALSE, 8)))}
    \cup {TyInt(s, w) : <<s, w>> \in BOOLEAN \X Widths}

\* what the visitor driving an ExtDeserializer asks of each position
ExtSeeds == {TyInt(TRUE, 8), TyInt(FALSE, 8), TyBytes, TyStr}

(***************************************************************************)
(* The state machine: one call of to_value, optionally followed by         *)
(* from_value on its output; one call of from_value on any rmpv value; or  *)
(* an ExtDeserializer, an ArrayAccess or a ValueMapAccess (held in ext)     *)
(* driven one read at a time.                                              *)
(***************************************************************************)
Unset == [st |-> "unset"]

Init ==
  /\ pc = "idle"
  /\ typed = Unset
  /\ output = Unset
  /\ target = Unset
  /\ input = Unset
  /\ result = Unset
  /\ ext = Unset
  /\ reads = <<>>
  /\ enc = Unset

\* to_value(&value)
ToValue(value) ==
  /\ pc = "idle"
  /\ typed' = value
  /\ output' = to_value(value)
  /\ pc' = "encoded"
  /\ UNCHANGED <<target, input, result, ext, reads, enc>>

\* from_value::<T>(&val) on what to_value returned, T the value's own type
FromOutput ==
  /\ pc = "encoded"
  /\ typed \in RoundTripValues \cup StructValues
  /\ output.st = "ok"
  /\ target' = TypeOf(typed)
  /\ input' = output.val
  /\ result' = from_value(TypeOf(typed), output.val)
  /\ pc' = "roundtrip"
  /\ UNCHANGED <<typed, output, ext, reads, enc>>

\* from_value::<T>(&s)
FromValue(ty, s) ==
  /\ pc = "idle"
  /\ target' = ty
  /\ input' = s
  /\ result' = from_value(ty, s)
  /\ pc' = "decoded"
  /\ UNCHANGED <<typed, output, ext, reads, enc>>

\* deserialize_seq on an Ext: ExtDeserializer::new(self.input.clone())
ExtBegin(s) ==
  /\ pc = "idle"
  /\ s.t = "Ext"
  /\ input' = s
  /\ ext' = ExtDeserializer_new(s)
  /\ reads' = <<>>
  /\ pc' = "ext"
  /\ UNCHANGED <<typed, output, target, result, enc>>

\* SeqAccess::next_element_seed on the ExtDeserializer; reads keeps, per
\* call, the seed's target type and what the call returned
ExtNextElement(ty) ==
  /\ pc = "ext"
  /\ Len(reads) < MaxReads
  /\ LET n == next_element_seed(ext, ty)
     IN  /\ ext' = n.acc
         /\ reads' = Append(reads, [seed |-> ty, res |-> n.res])
  /\ UNCHANGED <<pc, typed, output, target, input, result, enc>>

\* what the visitor driving an ArrayAccess asks of each element
ArraySeeds == {TyInt(FALSE, 8), TyStr, TyAny}

\* what the visitor driving a ValueMapAccess asks of keys and of values
MapSeeds == {TyStr, TyAny}

\* deserialize_seq on an Array: ArrayAccess::new(self)
ArrayBegin(s) ==
  /\ pc = "idle"
  /\ s.t = "Array"
  /\ input' = s
  /\ ext' = ArrayAccess_new(s)
  /\ reads' = <<>>
  /\ pc' = "array"
  /\ UNCHANGED <<typed, output, target, result, enc>>

\* SeqAccess::next_element_seed on the ArrayAccess; reads keeps, per call,
\* the seed's type, what the call returned and the cursor before and after
ArrayNextElement(ty) ==
  /\ pc = "array"
  /\ Len(reads) < MaxReads
  /\ LET n == next_element_seed(ext, ty)
     IN  /\ ext' = n.acc
         /\ reads' = Append(reads, [seed |-> ty, res |-> n.res,
                                    at |-> ext.offset, to |-> n.acc.offset])
  /\ UNCHANGED <<pc, typed, output, target, input, result, enc>>

\* whether the last read panicked: the call has unwound and the accessor is
\* gone
Unwound == reads # <<>> /\ reads[Len(reads)].res.st = "panic"

\* deserialize_map on a Map: ValueMapAccess::new(self)
MapBegin(s) ==
  /\ pc = "idle"
  /\ s.t = "Map"
  /\ input' = s
  /\ ext' = ValueMapAccess_new(s)
  /\ reads' = <<>>
  /\ pc' = "map"
  /\ UNCHANGED <<typed, output, target, result, enc>>

\* MapAccess::next_key_seed on the ValueMapAccess
MapNextKey(ty) ==
  /\ pc = "map"
  /\ Len(reads) < MaxReads
  /\ ~Unwound
  /\ LET n == next_key_seed(ext, ty)
     IN  /\ ext' = n.acc
         /\ reads' = Append(reads, [op |-> "key", seed |-> ty, res |-> n.res,
                                    at |-> ext.offset, to |-> n.acc.offset])
  /\ UNCHANGED <<pc, typed, output, target, input, result, enc>>

\* MapAccess::next_value_seed on the ValueMapAccess, whenever the visitor
\* asks for it (also before the first key)
MapNextValue(ty) ==
  /\ pc = "map"
  /\ Len(reads) < MaxReads
  /\ ~Unwound
  /\ LET n == next_value_seed(ext, ty)
     IN  /\ ext' = n.acc
         /\ reads' = Append(reads, [op |-> "value", seed |-> ty, res |-> n.res,
                                    at |-> ext.offset, to |-> n.acc.offset])
  /\ UNCHANGED <<pc, typed, output, target, input, result, enc>>

Next ==
  \/ \E value \in TypedValues : ToValue(value)
  \/ FromOutput
  \/ \E ty \in Targets, s \in DynValues : FromValue(ty, s)
  \/ \E s \in DynValues : ExtBegin(s)
  \/ \E ty \in ExtSeeds : ExtNextElement(ty)
  \/ \E s \in DynValues : ArrayBegin(s)
  \/ \E ty \in ArraySeeds : ArrayNextElement(ty)
  \/ \E s \in DynValues : MapBegin(s)
  \/ \E ty \in MapSeeds : MapNextKey(ty)
  \/ \E ty \in MapSeeds : MapNextValue(ty)

Spec == Init /\ [][Next]_vars

(***************************************************************************)
(* The Serializer driven one call at a time, as a Serialize impl drives    *)
(* it: a start operation (or none), then appends.  enc holds the output    *)
(* slot, the slot the start left, the number of appends that made the      *)
(* container longer, and the last call with the slot it found.             *)
(***************************************************************************)
\* the slot of a fresh Serializer and the slots the start operations leave
StartSlots ==
  {Nil, begin_seq, begin_tuple_variant("TEnum", "Tuple"), begin_map,
   begin_struct_variant("TEnum", "Struct")}

\* the children handed to the appends: a scalar, a container and a wrapper
\* whose encoding is an error
AppendValues ==
  {TBool(TRUE), TTuple(<<TInt(FALSE, 8, MkInt(1))>>),
   TNewtypeStruct(MSGPACK_EXT_STRUCT_NAME, TStr("a"))}

\* the length of the container in a slot
SlotLen(out) ==
  CASE out.t = "Array" -> Len(out.arr)
    [] out.t = "Map" -> Len(out.map)
    [] OTHER -> 0

\* the number of children a slot holds: the elements of an Array and the
\* entries of the Map a struct variant keeps as its last element, or the
\* entries of a Map
SlotSize(out) ==
  CASE out.t = "Array" ->
         Len(out.arr) + (IF out.arr # <<>> /\ out.arr[Len(out.arr)].t = "Map"
                         THEN Len(out.arr[Len(out.arr)].map) ELSE 0)
    [] out.t = "Map" -> Len(out.map)
    [] OTHER -> 0

\* Serializer { output: Nil }, then the start operation if there is one
SerBegin(first) ==
  /\ pc = "idle"
  /\ enc' = [output |-> first, first |-> first, grown |-> 0, last |-> [op |-> "start"]]
  /\ pc' = "ser"
  /\ UNCHANGED <<typed, output, target, input, result, ext, reads>>

\* one append call: n is the slot after it and what it returned
SerStep(op, arg, n) ==
  /\ pc = "ser"
  /\ SlotSize(enc.output) - SlotSize(enc.first) < MaxAppends
  /\ ~(enc.last.op # "start" /\ enc.last.res.st = "panic")
  /\ enc' = [output |-> n.out,
             first |-> enc.first,
             grown |-> enc.grown + SlotLen(n.out) - SlotLen(enc.output),
             last |-> [op |-> op, arg |-> arg, res |-> n.res, before |-> enc.output]]
  /\ UNCHANGED <<pc, typed, output, target, input, result, ext, reads>>

\* SerializeSeq/Tuple/TupleStruct::serialize_element, TupleVariant::serialize_field
SerElement(v) == SerStep("element", v, serialize_seq_element(enc.output, v))

\* SerializeMap::serialize_key
SerKey(v) == SerStep("key", v, serialize_key(enc.output, v))

\* SerializeMap::serialize_value
SerValue(v) == SerStep("value", v, serialize_value(enc.output, v))

\* SerializeStruct::serialize_field
SerField(key, v) == SerStep("field", v, serialize_field(enc.output, key, v))

\* SerializeStructVariant::serialize_field
SerVariantField(key, v) ==
  SerStep("variant_field", v, serialize_variant_field(enc.output, key, v))

EncoderNext ==
  \/ \E first \in StartSlots : SerBegin(first)
  \/ \E v \in AppendValues : SerElement(v)
  \/ \E v \in AppendValues : SerKey(v)
  \/ \E v \in AppendValues : SerValue(v)
  \/ \E v \in AppendValues : SerField("a", v)
  \/ \E v \in AppendValues : SerVariantField("a", v)

EncoderSpec == Init /\ [][EncoderNext]_vars

(***************************************************************************)
(* Properties                                                              *)
(***************************************************************************)

\* C1: round-trip identity.  For every value built from bool, integers,
\* f32, f64, text, bytes, optionals, sequences, maps, unit variants and the
\* _ExtStruct wrapper, to_value succeeds and from_value of its output into
\* the value's own type returns the value.
C1_RoundTripIdentity ==
  /\ (pc = "encoded" /\ typed \in RoundTripValues) => output.st = "ok"
  /\ (pc = "roundtrip" /\ typed \in RoundTripValues) => result = Ok(typed)

\* C2: for every i8 tag t and byte sequence b, to_value of _ExtStruct((t, b))
\* is Ok(Ext(t, b)).
C2_ExtStructEncodesToExt ==
  pc = "encoded" =>
    \A t \in ExtTags, b \in ByteSeqs :
      typed = ExtStruct(t, b) => output = Ok(Ext(t, b))

\* an Array of exactly two elements [Integer within -128..127, Binary]
IsExtShape(nv) ==
  /\ nv.t = "Array"
  /\ Len(nv.arr) = 2
  /\ nv.arr[1].t = "Integer"
  /\ InType(nv.arr[1].n, TRUE, 8)
  /\ nv.arr[2].t = "Binary"

\* C3: when _ExtStruct wraps a value whose own encoding is not an Array of
\* two elements [integer tag fitting 8 bits, Binary], to_value returns the
\* error "invalid ext struct" of the Format kind: no panic, no value.
C3_MalformedExtStructIsError ==
  (/\ pc = "encoded"
   /\ typed.k = "newtype_struct"
   /\ typed.name = MSGPACK_EXT_STRUCT_NAME
   /\ to_value(typed.inner).st = "ok"
   /\ ~IsExtShape(to_value(typed.inner).val))
  => output = Message(<<"invalid ext struct">>)

\* C4: an Ext(t, b) read as a sequence is a 2-element source.  The first
\* next_element_seed yields t to an i8 seed, the second yields b to a bytes
\* seed, the third and every later one yields None, and the cursor counts
\* the positions handed out; so from_value of Ext(t, b) into the _ExtStruct
\* wrapper of (i8, bytes) is Ok of the wrapper holding (t, b).
C4_ExtIsTwoElementSource ==
  /\ pc = "ext" =>
       /\ ext.offset = (IF Len(reads) < 2 THEN Len(reads) ELSE 2)
       /\ (Len(reads) >= 1 /\ reads[1].seed = TyInt(TRUE, 8)) =>
            reads[1].res = Ok(Some(TInt(TRUE, 8, MkInt(input.id))))
       /\ (Len(reads) >= 2 /\ reads[2].seed = TyBytes) =>
            reads[2].res = Ok(Some(TBytes(input.bin)))
       /\ \A i \in 3..Len(reads) : reads[i].res = Ok(None)
  /\ (/\ pc = "decoded"
      /\ input.t = "Ext"
      /\ target = TyNewtypeStruct(MSGPACK_EXT_STRUCT_NAME,
                                  TyTuple(<<TyInt(TRUE, 8), TyBytes>>)))
     => result = Ok(ExtStruct(input.id, input.bin))

\* C4 witness: a negative tag read with an i8 seed, the bytes read with a
\* bytes seed, and a third read made
C4_Witness ==
  /\ pc = "ext"
  /\ Len(reads) >= 3
  /\ input.id < 0
  /\ input.bin # <<>>
  /\ reads[1].seed = TyInt(TRUE, 8)
  /\ reads[2].seed = TyBytes

\* the number of Ext nodes of an rmpv value, at any depth
RECURSIVE ExtCount(_), ExtCountAll(_)
ExtCountAll(ds) ==
  IF ds = <<>> THEN 0 ELSE ExtCount(Head(ds)) + ExtCountAll(Tail(ds))

ExtCount(d) ==
  CASE d.t = "Ext" -> 1
    [] d.t = "Array" -> ExtCountAll(d.arr)
    [] d.t = "Map" -> ExtCountAll([i \in 1..Len(d.map) |-> d.map[i][1]])
                        + ExtCountAll([i \in 1..Len(d.map) |-> d.map[i][2]])
    [] OTHER -> 0

\* the number of newtype wrappers named exactly _ExtStruct in a typed value
RECURSIVE WrapperCount(_), WrapperCountAll(_)
WrapperCountAll(vs) ==
  IF vs = <<>> THEN 0 ELSE WrapperCount(Head(vs)) + WrapperCountAll(Tail(vs))

WrapperCount(v) ==
  CASE v.k = "newtype_struct" ->
         (IF v.name = "_ExtStruct" THEN 1 ELSE 0) + WrapperCount(v.inner)
    [] v.k \in {"some", "newtype_variant"} -> WrapperCount(v.inner)
    [] v.k \in {"seq", "tuple", "tuple_struct", "tuple_variant"} -> WrapperCountAll(v.vs)
    [] v.k = "map" -> WrapperCountAll([i \in 1..Len(v.es) |-> v.es[i][1]])
                        + WrapperCountAll([i \in 1..Len(v.es) |-> v.es[i][2]])
    [] v.k \in {"struct", "struct_variant"} ->
         WrapperCountAll([i \in 1..Len(v.fs) |-> v.fs[i][2]])
    [] OTHER -> 0

\* C5: the name _ExtStruct alone turns a pair into an Ext.  The output of
\* to_value holds exactly as many Ext nodes as the value holds newtype
\* wrappers named _ExtStruct, and the pair (t, b) bare, or under a wrapper
\* of any other name, encodes to Array [Integer t, Binary b].
C5_ExtOnlyFromExtStructName ==
  (pc = "encoded" /\ output.st = "ok") =>
    /\ ExtCount(output.val) = WrapperCount(typed)
    /\ \A t \in ExtTags, b \in ByteSeqs :
         (\/ typed = ExtPair(t, b)
          \/ \E name \in WrapperNames \ {"_ExtStruct"} :
               typed = TNewtypeStruct(name, ExtPair(t, b)))
         => output.val = Array(<<Integer(MkInt(t)), Binary(b)>>)

\* C5 witness: the pair under a wrapper whose name differs from the marker
\* in one character encodes to an Array
C5_Witness ==
  /\ pc = "encoded"
  /\ typed = TNewtypeStruct("ExtStruct", ExtPair(42, <<1>>))
  /\ output = Ok(Array(<<Integer(MkInt(42)), Binary(<<1>>)>>))

\* whether a 64-bit number is small enough to compute with directly
IsSmall(n) ==
  \/ ~n.neg /\ n.l[1] = 0 /\ n.l[2] = 0 /\ n.l[3] < 16384
  \/ n.neg /\ n.l[1] = 65535 /\ n.l[2] = 65535 /\ n.l[3] >= 49152

\* the number a small 64-bit pattern denotes
SmallValue(n) ==
  IF n.neg THEN (n.l[3] - 65536) * 65536 + n.l[4] ELSE n.l[3] * 65536 + n.l[4]

\* n reduced into the range of the integer type (s, w), for w of 8 or 16
Wrapped(v, s, w) ==
  IF s THEN ((v + 2^(w - 1)) % 2^w) - 2^(w - 1) ELSE v % 2^w

\* the result is the value of type (s, w) congruent to n modulo 2^w
IsTruncationOf(r, n, s, w) ==
  /\ r.st = "ok"
  /\ r.val.k = "int" /\ r.val.s = s /\ r.val.w = w
  /\ InType(r.val.n, s, w)
  /\ Trunc(r.val.n.l, w) = Trunc(n.l, w)
  /\ (IsSmall(n) /\ w \in {8, 16}) =>
       SmallValue(r.val.n) = Wrapped(SmallValue(n), s, w)

\* C6 as claimed: every fixed-width integer request on every Integer
\* succeeds and returns the number truncated to the requested width.
C6_TruncationNeverFails ==
  (pc = "decoded" /\ target.k = "int" /\ input.t = "Integer") =>
    IsTruncationOf(result, input.n, target.s, target.w)

\* C6 as amended: a signed request on an Integer within the i64 range, and
\* an unsigned request on an Integer within the u64 range, succeed and
\* return the number truncated to the requested width (300 as u8 is 44);
\* a signed request on an Integer above i64::MAX and an unsigned request on
\* a negative Integer return TypeError("expected <type>").
C6_TruncationWithinAccessorRange ==
  (pc = "decoded" /\ target.k = "int" /\ input.t = "Integer") =>
    IF InType(input.n, target.s, 64)
    THEN IsTruncationOf(result, input.n, target.s, target.w)
    ELSE result = TypeError(<<"expected ", IntName(target.s, target.w)>>)

\* C6 witness: Int(300) asked as u8 came back as 44
C6_Witness ==
  /\ pc = "decoded"
  /\ target = TyInt(FALSE, 8)
  /\ input = Integer(MkInt(300))
  /\ result = Ok(TInt(FALSE, 8, MkInt(44)))

\* the variant a String input selects in an enum, if it names one
SelectedKinds(name, d) ==
  IF d.t # "String" THEN {}
  ELSE {EnumVariants(name)[i].kind :
          i \in {j \in 1..Len(EnumVariants(name)) : EnumVariants(name)[j].name = d.str}}

KindText(kind) ==
  CASE kind = "newtype" -> "newtype variant"
    [] kind = "tuple" -> "tuple variant"
    [] kind = "struct" -> "struct variant"

C8_F32AndCharUnsupported ==
  (pc \in {"decoded", "roundtrip"} /\ target.k \in {"f32", "char"}) =>
    result = UnsupportedType

\* C8 witness: an f32 encoded to F32 and asked back as f32
C8_Witness ==
  /\ pc = "roundtrip"
  /\ typed = TF32([num |-> "1.5"])
  /\ input = F32([num |-> "1.5"])
  /\ result = UnsupportedType

\* the rmpv tag a scalar request is for
ScalarTag(ty) ==
  CASE ty.k = "str" -> "String"
    [] ty.k = "bytes" -> "Binary"
    [] ty.k = "bool" -> "Boolean"
    [] ty.k = "unit" -> "Nil"
    [] ty.k = "int" -> "Integer"

\* C9: scalar requests are shape-exact.  A text, binary, bool, unit or
\* integer request succeeds only on String, Binary, Boolean, Nil and
\* Integer respectively, and returns a TypeError on every other tag.
C9_ScalarRequestsShapeExact ==
  (pc = "decoded" /\ target.k \in {"str", "bytes", "bool", "unit", "int"}) =>
    /\ result.st = "ok" => input.t = ScalarTag(target)
    /\ input.t # ScalarTag(target) => (result.st = "err" /\ result.kind = "TypeError")

\* C10: an untyped request dispatches on the tag alone: Nil is reported as
\* unit, Boolean as bool, every Integer as a 64-bit integer, String as
\* text, Array as a sequence, Map as a map, Binary as bytes; F32, F64 and
\* Ext return UnsupportedType.
C10_AnyDispatchesOnTag ==
  (pc = "decoded" /\ target = TyAny) =>
    CASE input.t = "Nil" -> result = Ok(TUnit)
      [] input.t = "Boolean" -> result = Ok(TBool(input.b))
      [] input.t = "Integer" ->
           result.st = "ok" /\ result.val.k = "int" /\ result.val.w = 64
      [] input.t = "String" -> result = Ok(TStr(input.str))
      [] input.t = "Array" -> result.st = "ok" => result.val.k = "seq"
      [] input.t = "Map" -> result.st = "ok" => result.val.k = "map"
      [] input.t = "Binary" -> result = Ok(TBytes(input.bin))
      [] OTHER -> result = UnsupportedType

\* whether every field value of a struct encodes on its own
FieldsEncode(fs) == \A i \in 1..Len(fs) : to_value(fs[i][2]).st = "ok"

\* the Map of (Str(field name), encode(field value)) in declaration order
FieldMap(fs) ==
  Map([i \in 1..Len(fs) |-> <<String(fs[i][1]), to_value(fs[i][2]).val>>])

\* whether a value comes back from from_value(to_value(v)) as itself
RoundTrips(v) ==
  /\ to_value(v).st = "ok"
  /\ from_value(TypeOf(v), to_value(v).val) = Ok(v)

Encodings(vs) == [i \in 1..Len(vs) |-> to_value(vs[i]).val]

\* C12: a tuple variant V(x1..xn) of enum T encodes to the Array of n+2
\* elements [Str(T), Str(V), encode(x1), .., encode(xn)] in declaration
\* order; the variant holding only the first k fields encodes to the first
\* k+2 elements of it, so an append leaves the names and the earlier fields
\* alone.  When a field does not encode there is no Array.
C12_TupleVariantShape ==
  (pc = "encoded" /\ typed.k = "tuple_variant") =>
    IF \A i \in 1..Len(typed.vs) : to_value(typed.vs[i]).st = "ok"
    THEN /\ output = Ok(Array(<<String(typed.name), String(typed.variant)>>
                                \o Encodings(typed.vs)))
         /\ Len(output.val.arr) = Len(typed.vs) + 2
         /\ \A k \in 0..Len(typed.vs) :
              to_value(TTupleVariant(typed.name, typed.variant, SubSeq(typed.vs, 1, k)))
                = Ok(Array(SubSeq(output.val.arr, 1, k + 2)))
    ELSE output.st # "ok"

\* C12 witness: TEnum::Tuple(1u8, 2u8) encoded to ["TEnum", "Tuple", 1, 2]
C12_Witness ==
  /\ pc = "encoded"
  /\ typed = TTupleVariant("TEnum", "Tuple",
                           <<TInt(FALSE, 8, MkInt(1)), TInt(FALSE, 8, MkInt(2))>>)
  /\ output = Ok(Array(<<String("TEnum"), String("Tuple"),
                         Integer(MkInt(1)), Integer(MkInt(2))>>))

\* C13: integers encode to the Integer of the same number and come back.
\* A u64 encodes to Integer(n) and from_value::<u64> of it is n; an i64
\* encodes to Integer(n) and from_value::<i64> of it is n; an integer of a
\* narrower type encodes to the same Integer as the 64-bit integer of the
\* same number, and comes back as its own type.
C13_IntegerRoundTrip ==
  /\ (pc = "encoded" /\ typed.k = "int") =>
       /\ output = Ok(Integer(typed.n))
       /\ output = to_value(TInt(typed.s, 64, typed.n))
       /\ from_value(TyInt(typed.s, 64), output.val) = Ok(TInt(typed.s, 64, typed.n))
  /\ (pc = "roundtrip" /\ typed.k = "int") =>
       /\ input = Integer(typed.n)
       /\ result = Ok(typed)

\* C13 witness: i64::MIN encoded and decoded back as i64
C13_Witness ==
  /\ pc = "roundtrip"
  /\ typed = TInt(TRUE, 64, Neg(32768, 0, 0, 0))
  /\ input = Integer(Neg(32768, 0, 0, 0))
  /\ result = Ok(typed)

\* the decodings of the elements of an Array as type ty, in stored order
ElementsAs(ty, arr) == [i \in 1..Len(arr) |-> from_value(ty, arr[i]).val]

\* C14: a sequence, tuple or tuple-struct request dispatches on the tag.
\* Binary goes to the visitor as one byte string (a byte-buffer visitor
\* gets the bytes; a Vec or tuple visitor, which takes no byte string,
\* rejects it).  Ext is the 2-element sequence [tag as i8, bytes].  Array is
\* read element by element in stored order.  Every other tag is
\* TypeError("expected sequence type").
C14_SeqRequestDispatchesOnTag ==
  (pc = "decoded" /\ target.k \in {"seq", "tuple", "tuple_struct", "byte_seq"}) =>
    CASE input.t = "Binary" ->
           IF target.k = "byte_seq" THEN result = Ok(TBytes(input.bin))
           ELSE result = invalid_type("byte array", target.k)
      [] input.t = "Ext" ->
           /\ target = TySeq(TyAny) =>
                result = Ok(TSeq(TyAny, <<TInt(TRUE, 8, MkInt(input.id)),
                                          TBytes(input.bin)>>))
           /\ target = TyTuple(<<TyInt(TRUE, 8), TyBytes>>) =>
                result = Ok(ExtPair(input.id, input.bin))
           /\ target = TyTupleStruct("Pair", <<TyInt(TRUE, 8), TyBytes>>) =>
                result = Ok(TTupleStruct("Pair", ExtPair(input.id, input.bin).vs))
      [] input.t = "Array" ->
           /\ (/\ target.k = "seq"
               /\ \A i \in 1..Len(input.arr) : from_value(target.ty, input.arr[i]).st = "ok")
              => result = Ok(TSeq(target.ty, ElementsAs(target.ty, input.arr)))
           /\ (/\ target.k = "tuple"
               /\ Len(target.tys) = Len(input.arr)
               /\ \A i \in 1..Len(input.arr) :
                    from_value(target.tys[i], input.arr[i]).st = "ok")
              => result = Ok(TTuple([i \in 1..Len(input.arr) |->
                                       from_value(target.tys[i], input.arr[i]).val]))
           /\ result # TypeError(<<"expected sequence type">>)
      [] OTHER -> result = TypeError(<<"expected sequence type">>)

\* C14 witness: Array [1, 300] read as Vec<u8> came back as [1, 44]
C14_Witness ==
  /\ pc = "decoded"
  /\ target = TySeq(TyInt(FALSE, 8))
  /\ input = Array(<<Integer(MkInt(1)), Integer(MkInt(300))>>)
  /\ result = Ok(TSeq(TyInt(FALSE, 8), <<TInt(FALSE, 8, MkInt(1)), TInt(FALSE, 8, MkInt(44))>>))

\* the number of key reads among the first j reads of a ValueMapAccess
KeyReads(j) == Cardinality({k \in 1..j : reads[k].op = "key"})

\* C15: a map or struct request succeeds only on a Map, any other tag being
\* TypeError("expected map").  On a Map of n entries the i-th key read
\* returns entry i's key and the value read that follows returns entry i's
\* value, in stored order; the key read after the n-th returns None; a value
\* read made before any key read panics.
C15_MapAccessKeyThenValue ==
  /\ (pc = "decoded" /\ target.k \in {"map", "struct"}) =>
       /\ input.t # "Map" => result = TypeError(<<"expected map">>)
       /\ result.st = "ok" => input.t = "Map"
  /\ pc = "map" =>
       \A j \in 1..Len(reads) :
         LET i == KeyReads(j)
             r == reads[j]
         IN  /\ (r.op = "key" /\ i <= Len(input.map)) =>
                  r.res = OkSome(RewrapMessage(from_value(r.seed, input.map[i][1])))
             /\ (r.op = "key" /\ i > Len(input.map)) => r.res = Ok(None)
             /\ (r.op = "value" /\ j > 1 /\ reads[j - 1].op = "key" /\ i <= Len(input.map)) =>
                  r.res = RewrapMessage(from_value(r.seed, input.map[i][2]))
             /\ (r.op = "value" /\ i = 0) => r.res.st = "panic"

\* C15 witness: on Map [("a", 1), ("a", true)] four reads were made, and
\* the second key read and the value read after it returned "a" and true
C15_Witness ==
  /\ pc = "map"
  /\ input = Map(<<<<String("a"), Integer(MkInt(1))>>, <<String("a"), Boolean(TRUE)>>>>)
  /\ Len(reads) = 4
  /\ reads[3].op = "key" /\ reads[3].res = Ok(Some(TStr("a")))
  /\ reads[4].op = "value" /\ reads[4].res = Ok(TBool(TRUE))

\* C16: the cursor of an ArrayAccess on an Array of length n starts at 0,
\* never decreases and never exceeds n; the k-th read (k <= n) is of the
\* element at index k-1 and moves the cursor from k-1 to k; once the cursor
\* is n every read returns None and leaves the cursor at n.
C16_ArrayCursor ==
  pc = "array" =>
    LET n == Len(input.arr)
    IN  /\ ext.offset = (IF Len(reads) < n THEN Len(reads) ELSE n)
        /\ \A k \in 1..Len(reads) :
             /\ reads[k].at <= reads[k].to
             /\ reads[k].at = (IF k = 1 THEN 0 ELSE reads[k - 1].to)
             /\ reads[k].to <= n
             /\ IF k <= n
                THEN /\ reads[k].at = k - 1
                     /\ reads[k].to = k
                     /\ reads[k].res =
                          OkSome(RewrapMessage(from_value(reads[k].seed, input.arr[k])))
                ELSE /\ reads[k].at = n
                     /\ reads[k].to = n
                     /\ reads[k].res = Ok(None)

\* C16 witness: Array [1, 300] read three times: 1, then an element that
\* fails a text seed, then None
C16_Witness ==
  /\ pc = "array"
  /\ input = Array(<<Integer(MkInt(1)), Integer(MkInt(300))>>)
  /\ Len(reads) = 3
  /\ reads[1].res = Ok(Some(TInt(FALSE, 8, MkInt(1))))
  /\ reads[2].res.st = "err"
  /\ reads[3].res = Ok(None)
  /\ ext.offset = 2

\* the children of a typed value in the order the encoder visits them
EncChildren(v) ==
  CASE v.k \in {"seq", "tuple", "tuple_struct", "tuple_variant"} -> v.vs
    [] v.k = "map" -> [i \in 1..(2 * Len(v.es)) |-> v.es[(i + 1) \div 2][2 - (i % 2)]]
    [] v.k \in {"struct", "struct_variant"} -> [i \in 1..Len(v.fs) |-> v.fs[i][2]]
    [] v.k \in {"some", "newtype_struct", "newtype_variant"} -> <<v.inner>>
    [] OTHER -> <<>>

\* the decodings of the children of an rmpv value in the order the decoder
\* visits them for target type ty
DecChildren(ty, d) ==
  CASE ty.k = "seq" /\ d.t = "Array" ->
         [i \in 1..Len(d.arr) |-> from_value(ty.ty, d.arr[i])]
    [] ty.k = "tuple" /\ d.t = "Array" ->
         [i \in 1..(IF Len(ty.tys) < Len(d.arr) THEN Len(ty.tys) ELSE Len(d.arr)) |->
            from_value(ty.tys[i], d.arr[i])]
    [] ty.k = "map" /\ d.t = "Map" ->
         [i \in 1..(2 * Len(d.map)) |->
            from_value(IF i % 2 = 1 THEN ty.kty ELSE ty.vty,
                       d.map[(i + 1) \div 2][2 - (i % 2)])]
    [] OTHER -> <<>>

\* the first result of a list that is not a success
FirstFailure(rs) ==
  rs[CHOOSE i \in 1..Len(rs) : rs[i].st # "ok" /\ \A j \in 1..(i - 1) : rs[j].st = "ok"]

HasFailure(rs) == \E i \in 1..Len(rs) : rs[i].st # "ok"

\* C17: the first failure in traversal order ends the call.  When a child
\* of the value does not encode, to_value ends with the first such child's
\* failure (its error, or its panic) and returns no value; when an element
\* of an Array, or a key or value of a Map, does not decode, from_value
\* returns the first such failure (its text, re-wrapped) and no value.
C17_FirstFailureEndsTheCall ==
  /\ (pc = "encoded" /\ HasFailure([i \in 1..Len(EncChildren(typed)) |->
                                      to_value(EncChildren(typed)[i])])) =>
       /\ output = FirstFailure([i \in 1..Len(EncChildren(typed)) |->
                                   to_value(EncChildren(typed)[i])])
       /\ "val" \notin DOMAIN output
  /\ (pc = "decoded" /\ HasFailure(DecChildren(target, input))) =>
       /\ result = RewrapMessage(FirstFailure(DecChildren(target, input)))
       /\ result.st = "err"
       /\ "val" \notin DOMAIN result

\* C17 witness: (bool, str) asked of Array ["a", Nil], both elements failing:
\* the error is the first element's
C17_Witness ==
  /\ pc = "decoded"
  /\ target = TyTuple(<<TyBool, TyStr>>)
  /\ input = Array(<<String("a"), Nil>>)
  /\ result = Message(Display(TypeError(<<"expected bool">>)))

\* the container variant an append expects in the slot
ExpectedTag(op) == IF op \in {"element", "variant_field"} THEN "Array" ELSE "Map"

\* the internal-consistency errors of the encoder
ConsistencyErrors == {Message(<<"expected array">>), Message(<<"expected map">>)}

\* C18: after a start operation and any number of appends the slot holds
\* the container the start put there, as long as one append per child grows
\* it by exactly one at the end and leaves the earlier elements alone (a
\* serialize_value fills the value of the entry its key appended); an
\* append to a matching container never returns "expected array" or
\* "expected map", and an append that finds another variant in the slot
\* returns that error and leaves the slot alone.
C18_SlotKeepsItsContainer ==
  (pc = "ser") =>
    /\ enc.output.t = enc.first.t
    /\ SlotLen(enc.output) = SlotLen(enc.first) + enc.grown
    /\ enc.first.t = "Array" =>
         LET keep == IF enc.first.arr # <<>> /\ enc.first.arr[Len(enc.first.arr)].t = "Map"
                     THEN Len(enc.first.arr) - 1 ELSE Len(enc.first.arr)
         IN  SubSeq(enc.output.arr, 1, keep) = SubSeq(enc.first.arr, 1, keep)
    /\ enc.last.op # "start" =>
         LET op == enc.last.op
             before == enc.last.before
             after == enc.output
             res == enc.last.res
             child == to_value(enc.last.arg)
         IN  /\ before.t # ExpectedTag(op) =>
                  /\ res = Message(<<IF ExpectedTag(op) = "Array"
                                       THEN "expected array" ELSE "expected map">>)
                  /\ after = before
             /\ (before.t = ExpectedTag(op) /\ op # "variant_field") =>
                  res \notin ConsistencyErrors
             /\ (res \in ConsistencyErrors /\ before.t = ExpectedTag(op)) =>
                  (op = "variant_field" /\ before.arr[Len(before.arr)].t # "Map")
             /\ res # OkUnit => after = before
             /\ (res = OkUnit /\ op = "element") =>
                  after = Array(Append(before.arr, child.val))
             /\ (res = OkUnit /\ op = "key") =>
                  after = Map(Append(before.map, <<child.val, Nil>>))
             /\ (res = OkUnit /\ op = "field") =>
                  after = Map(Append(before.map, <<String("a"), child.val>>))
             /\ (res = OkUnit /\ op = "value") =>
                  /\ Len(after.map) = Len(before.map)
                  /\ \A i \in 1..(Len(before.map) - 1) : after.map[i] = before.map[i]
                  /\ after.map[Len(after.map)]
                       = <<before.map[Len(before.map)][1], child.val>>

\* C18 witness: a sequence was started and three children appended, the
\* last being a container of its own
C18_Witness ==
  /\ pc = "ser"
  /\ enc.first = begin_seq
  /\ enc.grown = 3
  /\ enc.last.op = "element"
  /\ enc.output = Array(<<Boolean(TRUE), Boolean(TRUE), Array(<<Integer(MkInt(1))>>)>>)

\* whether the request for ty, made on d, walks into the elements of an
\* Array or the entries of a Map (Option and newtype wrappers pass d on)
RECURSIVE Descends(_, _)
Descends(ty, d) ==
  CASE ty.k = "option" -> d.t # "Nil" /\ Descends(ty.ty, d)
    [] ty.k = "newtype_struct" -> Descends(ty.ty, d)
    [] ty.k \in {"seq", "tuple", "tuple_struct", "byte_seq"} -> d.t = "Array"
    [] ty.k \in {"map", "struct"} -> d.t = "Map"
    [] ty.k = "any" -> d.t \in {"Array", "Map"}
    [] OTHER -> FALSE

\* the child's failure f as the caller of the container sees it
IsRewrapOf(r, f) ==
  /\ r.st = "err"
  /\ r.kind = "Format"
  /\ r.msg = Display(f)

\* C19: the error kind does not survive a container boundary on decode.  A
\* failure of an element of an Array, or of a key or a value of a Map, comes
\* back as a Format (Message) error carrying the failure's text, both from
\* from_value and from each read of the accessors; every error of a request
\* that walks into an Array or a Map is a Format error; an Option or newtype
\* wrapper, and the two positions of an Ext, hand the error on unchanged.
C19_ContainerErrorsAreRewrapped ==
  /\ (pc = "decoded" /\ HasFailure(DecChildren(target, input))
        /\ FirstFailure(DecChildren(target, input)).st = "err") =>
       IsRewrapOf(result, FirstFailure(DecChildren(target, input)))
  /\ (pc = "decoded" /\ result.st = "err" /\ Descends(target, input)) =>
       result.kind = "Format"
  /\ (pc = "decoded" /\ result.st = "err" /\ input.t # "Nil"
        /\ target.k \in {"option", "newtype_struct"}) =>
       result = from_value(target.ty, input)
  /\ pc = "array" =>
       \A k \in 1..Len(reads) :
         (reads[k].at < Len(input.arr)
            /\ from_value(reads[k].seed, input.arr[reads[k].at + 1]).st = "err") =>
           IsRewrapOf(reads[k].res,
                      from_value(reads[k].seed, input.arr[reads[k].at + 1]))
  /\ pc = "map" =>
       \A k \in 1..Len(reads) :
         /\ (reads[k].op = "key" /\ reads[k].at < Len(input.map)
               /\ from_value(reads[k].seed, input.map[reads[k].at + 1][1]).st = "err") =>
              IsRewrapOf(reads[k].res,
                         from_value(reads[k].seed, input.map[reads[k].at + 1][1]))
         /\ (reads[k].op = "value" /\ reads[k].at >= 1 /\ reads[k].at <= Len(input.map)
               /\ from_value(reads[k].seed, input.map[reads[k].at][2]).st = "err") =>
              IsRewrapOf(reads[k].res,
                         from_value(reads[k].seed, input.map[reads[k].at][2]))
  /\ pc = "ext" =>
       \A k \in 1..Len(reads) :
         (k <= 2 /\ reads[k].res.st = "err") =>
           reads[k].res = IF k = 1 THEN ExtIdDeserializer(reads[k].seed, ext.id)
                          ELSE ExtValueDeserializer(reads[k].seed, ext.data)

\* C19 witness: Vec<char> asked of Array [F32]: the element's UnsupportedType
\* comes back as a Format error with the text "unsupported type"
C19_Witness ==
  /\ pc = "decoded"
  /\ target = TySeq(TyChar)
  /\ input = Array(<<F32([num |-> "1.5"])>>)
  /\ from_value(TyChar, input.arr[1]) = UnsupportedType
  /\ result = Message(<<"unsupported type">>)

\* Option<T>'s visit_some: Some of what the contained type decoded to, or
\* its failure
Present(r) == IF r.st = "ok" THEN Ok(TSome(r.val)) ELSE r

\* C20: optionals are transparent and collapse.  Some(x) encodes as x does
\* and None encodes to Nil; an Option<T> request gives None exactly on Nil
\* and otherwise what T decodes from the same value, as Some; so after
\* to_value a Some whose contents encoded to Nil comes back as None, and any
\* other Some(x) comes back as Some of what x's encoding decodes to.
C20_OptionTransparent ==
  /\ (pc \in {"encoded", "roundtrip"} /\ typed.k = "some") =>
       output = to_value(typed.inner)
  /\ (pc \in {"encoded", "roundtrip"} /\ typed.k = "none") => output = Ok(Nil)
  /\ (pc = "decoded" /\ target.k = "option") =>
       /\ (result.st = "ok" /\ result.val.k = "none") <=> input = Nil
       /\ input = Nil => result = Ok(TNone(target.ty))
       /\ input # Nil => result = Present(from_value(target.ty, input))
  /\ (pc = "roundtrip" /\ typed.k = "some") =>
       IF output.val = Nil
       THEN result = Ok(TNone(TypeOf(typed.inner)))
       ELSE result = Present(from_value(TypeOf(typed.inner), output.val))

\* C20 witness: Some(None) encoded to Nil and came back as None
C20_Witness ==
  /\ pc = "roundtrip"
  /\ typed = TSome(TNone(TyBool))
  /\ output = Ok(Nil)
  /\ result = Ok(TNone(TyOption(TyBool)))


============================================================================
